---- MODULE Spec2Model ----
(***************************************************************************)
(* Model of packages/sdk/src/ui/text.js: the Text component.               *)
(*                                                                         *)
(* A caller assembles a props object (SetProp, SetResponsiveSize,          *)
(* SetDataAttributes), then the component is rendered once, either         *)
(* through the exported ForwardedRefText, whose defaultProps are resolved  *)
(* by the host before Text runs (RenderForwardedRefText), or by the host   *)
(* invoking Text with the props as they are (RenderText).                  *)
(*                                                                         *)
(* JavaScript values are strings.  Undefined and Null are the two special  *)
(* values; ObjRef stands for "an object", whose contents are held in       *)
(* sizeObj (the responsive size mapping) or dataObj (dataAttributes).      *)
(***************************************************************************)
EXTENDS Naturals, Sequences, FiniteSets, TLC

VARIABLES
    theme,       \* textSizesByVariant of the ambient theme (read by useTheme)
    props,       \* the props object the caller wrote: prop name -> value
    sizeObj,     \* the object given as `size`: viewport -> size
    dataObj,     \* the object given as `dataAttributes`: attribute -> value
    pc,          \* "props" while the caller writes props, "done" after the render
    surface,     \* "none", "public" (ForwardedRefText) or "direct" (Text)
    textProps,   \* the props object Text received
    error,       \* "none", or what the render threw
    trace,       \* the calls Text made, in order
    sizeCall,    \* arguments of the call of useTextSize
    sizeResult,  \* what useTextSize returned
    responsiveCall, \* arguments of the call of getStylePropsForResponsiveProp
    styleArg,    \* the object passed to useStyledSystem
    element      \* the rendered element

vars == <<theme, props, sizeObj, dataObj, pc, surface, textProps, error, trace,
          sizeCall, sizeResult, responsiveCall, styleArg, element>>

-----------------------------------------------------------------------------
(* Bounds of the model *)

MaxProps == 2
MaxDataAttrs == 1

-----------------------------------------------------------------------------
(* JavaScript values and objects *)

Undefined == "undefined"
Null == "null"
ObjRef == "[object]"

EmptyMap == [k \in {} |-> Undefined]

TypeOf(v) ==
    IF v = Undefined THEN "undefined"
    ELSE IF v \in {Null, ObjRef} THEN "object"
    ELSE "string"

\* obj[k]: a missing property reads as undefined
Get(obj, k) == IF k \in DOMAIN obj THEN obj[k] ELSE Undefined

\* {...a, ...b}
Spread(a, b) ==
    [k \in DOMAIN a \cup DOMAIN b |-> IF k \in DOMAIN b THEN b[k] ELSE a[k]]

\* const {named..., ...rest} = obj
Rest(obj, named) == [k \in DOMAIN obj \ named |-> obj[k]]

With(obj, k, v) == [x \in DOMAIN obj \cup {k} |-> IF x = k THEN v ELSE obj[x]]

\* A value of a style prop: one value, or one value per viewport
Plain(v) == [responsive |-> FALSE, value |-> v, byViewport |-> EmptyMap]
Responsive(m) == [responsive |-> TRUE, value |-> Undefined, byViewport |-> m]

-----------------------------------------------------------------------------
(* Enumerations of text.js *)

TextVariants == {"default", "paragraph"}
TextSizes == {"xsmall", "small", "default", "large"}

AriaNames == {"aria-label", "aria-labelledby", "aria-describedby", "aria-controls",
              "aria-expanded", "aria-haspopup", "aria-hidden", "aria-live"}

\* The props Text names in its destructuring
NamedProps == {"as", "size", "variant", "children", "id", "role", "dataAttributes",
               "className", "style"} \cup AriaNames

\* The attributes Text sets on the element before spreading dataAttributes
BuiltinAttrs == {"id", "className", "style", "role"} \cup AriaNames

defaultProps == [k \in {"as", "size", "variant"} |->
                    IF k = "as" THEN "p" ELSE "default"]

-----------------------------------------------------------------------------
(* The theme *)

ThemeEntry(fontSize, lineHeight) ==
    [k \in {"fontSize", "lineHeight"} |->
        IF k = "fontSize" THEN Plain(fontSize) ELSE Plain(lineHeight)]

textSizesByVariant ==
    [v \in TextVariants |->
        IF v = "default"
        THEN [s \in TextSizes |->
                CASE s = "xsmall"  -> ThemeEntry("11px", "13px")
                  [] s = "small"   -> ThemeEntry("12px", "15px")
                  [] s = "default" -> ThemeEntry("14px", "18px")
                  [] s = "large"   -> ThemeEntry("15px", "19px")]
        ELSE [s \in TextSizes |->
                CASE s = "xsmall"  -> ThemeEntry("11px", "16px")
                  [] s = "small"   -> ThemeEntry("12px", "17px")
                  [] s = "default" -> ThemeEntry("14px", "21px")
                  [] s = "large"   -> ThemeEntry("15px", "24px")]]

-----------------------------------------------------------------------------
(* What a caller can write *)

Viewports == {"smallViewport", "largeViewport"}

StylePropNames == {"fontSize", "margin"}

DataKeys == {"data-test", "fontSize"} \cup BuiltinAttrs

PropNames == NamedProps \cup StylePropNames

PropValues(k) ==
    CASE k = "as"        -> {"h1", Null, Undefined}
      [] k = "size"      -> TextSizes \cup {"huge", Undefined}
      [] k = "variant"   -> TextVariants \cup {"heading", Undefined}
      [] k = "children"  -> {"Hello"}
      [] k = "id"        -> {"text-1"}
      [] k = "role"      -> {"note"}
      [] k = "className" -> {"intro"}
      [] k = "style"     -> {"{color: red}"}
      [] k = "fontSize"  -> {"20px", Undefined}
      [] k = "margin"    -> {"4px"}
      [] k \in AriaNames -> {"value of " \o k}
      [] OTHER           -> {}

DataValues(k) == IF k = "className" THEN {"tracked"} ELSE {"data " \o k}

ResponsiveSizes == UNION {[V -> TextSizes] : V \in SUBSET Viewports}

DataAttributeObjects ==
    UNION {{m \in [K -> UNION {DataValues(k) : k \in K}] :
                \A k \in K : m[k] \in DataValues(k)} :
           K \in {S \in SUBSET DataKeys : Cardinality(S) <= MaxDataAttrs}}

-----------------------------------------------------------------------------
(* State after construction *)

NoElement == [type |-> Undefined, attrs |-> EmptyMap, children |-> Undefined]
NoResult == [defined |-> FALSE, value |-> EmptyMap]

Init ==
    /\ theme = textSizesByVariant
    /\ props = EmptyMap
    /\ sizeObj = EmptyMap
    /\ dataObj = EmptyMap
    /\ pc = "props"
    /\ surface = "none"
    /\ textProps = EmptyMap
    /\ error = "none"
    /\ trace = <<>>
    /\ sizeCall = [called |-> FALSE, size |-> Undefined, variant |-> Undefined]
    /\ sizeResult = NoResult
    /\ responsiveCall = [called |-> FALSE, map |-> EmptyMap,
                         rowDefined |-> FALSE, row |-> EmptyMap]
    /\ styleArg = EmptyMap
    /\ element = NoElement

-----------------------------------------------------------------------------
(* Collaborators of text.js *)

\* getStylePropsForResponsiveProp(responsivePropObject, stylePropsForValue):
\* every style prop of the entries the sizes select, keyed by viewport.
\* Reading an entry of an undefined table throws.
getStylePropsForResponsiveProp(map, rowDefined, row) ==
    IF ~rowDefined /\ DOMAIN map # {}
    THEN [threw |-> TRUE, defined |-> FALSE, value |-> EmptyMap]
    ELSE LET known == {vp \in DOMAIN map : map[vp] \in DOMAIN row}
             keys == UNION {DOMAIN row[map[vp]] : vp \in known}
         IN [threw |-> FALSE, defined |-> TRUE,
             value |-> [k \in keys |->
                 Responsive([vp \in {w \in known : k \in DOMAIN row[map[w]]} |->
                                row[map[vp]][k].value])]]

\* useStyledSystem(styleProps): one resolved class name
useStyledSystem(styleProps) == "css-styled"

\* cx(a, b) of emotion: the class names that are not falsy, joined by a space
cx(a, b) ==
    IF a \in {Undefined, Null, ""} THEN (IF b \in {Undefined, Null, ""} THEN "" ELSE b)
    ELSE IF b \in {Undefined, Null, ""} THEN a
    ELSE a \o " " \o b

ResolveDefaultProps_Overwrite(p) == Spread(p, defaultProps)

\* The host's resolution of defaultProps: a prop that is undefined takes its default
ResolveDefaultProps(p) ==
    [k \in DOMAIN p \cup DOMAIN defaultProps |->
        IF k \in DOMAIN defaultProps /\ Get(p, k) = Undefined
        THEN defaultProps[k] ELSE p[k]]

-----------------------------------------------------------------------------
(* useTextSize *)

NotDelegated == [called |-> FALSE, map |-> EmptyMap, rowDefined |-> FALSE, row |-> EmptyMap]

TextSizesForVariant_DefaultRow(table, variant) ==
    [defined |-> TRUE, row |-> table["default"]]

\* const textSizesForVariant = textSizesByVariant[variant]
TextSizesForVariant(table, variant) ==
    IF variant \in DOMAIN table
    THEN [defined |-> TRUE, row |-> table[variant]]
    ELSE [defined |-> FALSE, row |-> EmptyMap]

LookupSize_DefaultSize(textSizesForVariant, textSizeProp) ==
    IF ~textSizesForVariant.defined
    THEN [threw |-> TRUE, result |-> NoResult]
    ELSE [threw |-> FALSE,
          result |-> [defined |-> TRUE, value |-> textSizesForVariant.row["default"]]]

LookupSize_Strict(textSizesForVariant, textSizeProp) ==
    IF ~textSizesForVariant.defined \/ textSizeProp \notin DOMAIN textSizesForVariant.row
    THEN [threw |-> TRUE, result |-> NoResult]
    ELSE [threw |-> FALSE,
          result |-> [defined |-> TRUE,
                      value |-> textSizesForVariant.row[textSizeProp]]]

\* return textSizesForVariant[textSizeProp]: a property of undefined cannot be
\* read (TypeError); a property the row does not have reads as undefined
LookupSize(textSizesForVariant, textSizeProp) ==
    IF ~textSizesForVariant.defined
    THEN [threw |-> TRUE, result |-> NoResult]
    ELSE [threw |-> FALSE,
          result |-> IF textSizeProp \in DOMAIN textSizesForVariant.row
                     THEN [defined |-> TRUE,
                           value |-> textSizesForVariant.row[textSizeProp]]
                     ELSE NoResult]

useTextSize(textSizeProp, variant, sizeMapping, table) ==
    LET textSizesForVariant == TextSizesForVariant(table, variant)
    IN IF TypeOf(textSizeProp) = "string"
       THEN LET r == LookupSize(textSizesForVariant, textSizeProp)
            IN [threw |-> r.threw, result |-> r.result, delegated |-> NotDelegated]
       ELSE LET r == getStylePropsForResponsiveProp(sizeMapping,
                         textSizesForVariant.defined, textSizesForVariant.row)
            IN [threw |-> r.threw,
                result |-> [defined |-> r.defined, value |-> r.value],
                delegated |-> [called |-> TRUE, map |-> sizeMapping,
                               rowDefined |-> textSizesForVariant.defined,
                               row |-> textSizesForVariant.row]]

-----------------------------------------------------------------------------
(* Text *)

StyleProps_RoleNotNamed(p) == Rest(p, NamedProps \ {"role"})

\* const {as: Component, size, ..., ...styleProps} = props
StyleProps(p) == Rest(p, NamedProps)

Invariants_SizeFirst(Component, size, variant) ==
    IF size = Undefined
    THEN [failed |-> "size", calls |-> <<"invariant(size)">>]
    ELSE IF Component = Undefined
    THEN [failed |-> "as", calls |-> <<"invariant(size)", "invariant(as)">>]
    ELSE IF variant = Undefined
    THEN [failed |-> "variant",
          calls |-> <<"invariant(size)", "invariant(as)", "invariant(variant)">>]
    ELSE [failed |-> "none",
          calls |-> <<"invariant(size)", "invariant(as)", "invariant(variant)">>]

\* The three invariant() calls, in order; the first that fails throws
Invariants(Component, size, variant) ==
    IF Component = Undefined
    THEN [failed |-> "as", calls |-> <<"invariant(as)">>]
    ELSE IF size = Undefined
    THEN [failed |-> "size", calls |-> <<"invariant(as)", "invariant(size)">>]
    ELSE IF variant = Undefined
    THEN [failed |-> "variant",
          calls |-> <<"invariant(as)", "invariant(size)", "invariant(variant)">>]
    ELSE [failed |-> "none",
          calls |-> <<"invariant(as)", "invariant(size)", "invariant(variant)">>]

MergedStyleProps_ThemeLast(stylePropsForTextSize, styleProps) ==
    Spread([k \in DOMAIN styleProps |-> Plain(styleProps[k])], stylePropsForTextSize)

\* {...stylePropsForTextSize, ...styleProps}
MergedStyleProps(stylePropsForTextSize, styleProps) ==
    Spread(stylePropsForTextSize, [k \in DOMAIN styleProps |-> Plain(styleProps[k])])

ClassName_Replaces(classNameForStyleProps, className) ==
    IF className = Undefined THEN classNameForStyleProps ELSE className

\* className={cx(classNameForStyleProps, className)}
ClassName(classNameForStyleProps, className) == cx(classNameForStyleProps, className)

BuiltinProps_AriaSwapped(p, classNameForStyleProps) ==
    [k \in BuiltinAttrs |->
        IF k = "className" THEN ClassName(classNameForStyleProps, Get(p, "className"))
        ELSE IF k = "aria-label" THEN Get(p, "aria-labelledby")
        ELSE IF k = "aria-labelledby" THEN Get(p, "aria-label")
        ELSE Get(p, k)]

\* The attributes written before {...dataAttributes}
BuiltinProps(p, classNameForStyleProps) ==
    [k \in BuiltinAttrs |->
        IF k = "className" THEN ClassName(classNameForStyleProps, Get(p, "className"))
        ELSE Get(p, k)]

ElementProps_DataFirst(builtin, dataAttributes) ==
    Spread(dataAttributes, builtin)

\* <Component id=... aria-live=... {...dataAttributes}>
ElementProps(builtin, dataAttributes) == Spread(builtin, dataAttributes)

Text(p, sizeMapping, dataMapping, table) ==
    LET Component == Get(p, "as")
        size == Get(p, "size")
        variant == Get(p, "variant")
        dataAttributes == IF Get(p, "dataAttributes") = Undefined
                          THEN EmptyMap ELSE dataMapping
        styleProps == StyleProps(p)
        inv == Invariants(Component, size, variant)
        ts == useTextSize(size, variant, sizeMapping, table)
        merged == MergedStyleProps(ts.result.value, styleProps)
        classNameForStyleProps == useStyledSystem(merged)
        noSizeCall == [called |-> FALSE, size |-> Undefined, variant |-> Undefined]
        notDelegated == NotDelegated
    IN IF inv.failed # "none"
       THEN [error |-> "invariant: " \o inv.failed, trace |-> inv.calls,
             sizeCall |-> noSizeCall, sizeResult |-> NoResult,
             responsiveCall |-> notDelegated, styleArg |-> EmptyMap,
             element |-> NoElement]
       ELSE LET called == [called |-> TRUE, size |-> size, variant |-> variant]
                t1 == inv.calls \o <<"useTextSize", "useTheme">>
                t2 == IF ts.delegated.called
                      THEN t1 \o <<"getStylePropsForResponsiveProp">> ELSE t1
            IN IF ts.threw
               THEN [error |-> "TypeError", trace |-> t2,
                     sizeCall |-> called, sizeResult |-> NoResult,
                     responsiveCall |-> ts.delegated, styleArg |-> EmptyMap,
                     element |-> NoElement]
               ELSE [error |-> "none",
                     trace |-> t2 \o <<"useStyledSystem", "cx", "createElement">>,
                     sizeCall |-> called, sizeResult |-> ts.result,
                     responsiveCall |-> ts.delegated, styleArg |-> merged,
                     element |-> [type |-> Component,
                                  attrs |-> ElementProps(
                                      BuiltinProps(p, classNameForStyleProps),
                                      dataAttributes),
                                  children |-> Get(p, "children")]]

-----------------------------------------------------------------------------
(* Actions *)

\* The caller writes one prop
SetProp(k, v) ==
    /\ pc = "props"
    /\ k \notin DOMAIN props
    /\ Cardinality(DOMAIN props) < MaxProps
    /\ props' = With(props, k, v)
    /\ UNCHANGED <<theme, sizeObj, dataObj, pc, surface, textProps, error, trace,
                   sizeCall, sizeResult, responsiveCall, styleArg, element>>

\* The caller writes size={{viewport: size, ...}}
SetResponsiveSize(m) ==
    /\ pc = "props"
    /\ "size" \notin DOMAIN props
    /\ Cardinality(DOMAIN props) < MaxProps
    /\ props' = With(props, "size", ObjRef)
    /\ sizeObj' = m
    /\ UNCHANGED <<theme, dataObj, pc, surface, textProps, error, trace,
                   sizeCall, sizeResult, responsiveCall, styleArg, element>>

\* The caller writes dataAttributes={{...}}
SetDataAttributes(m) ==
    /\ pc = "props"
    /\ "dataAttributes" \notin DOMAIN props
    /\ Cardinality(DOMAIN props) < MaxProps
    /\ props' = With(props, "dataAttributes", ObjRef)
    /\ dataObj' = m
    /\ UNCHANGED <<theme, sizeObj, pc, surface, textProps, error, trace,
                   sizeCall, sizeResult, responsiveCall, styleArg, element>>

Rendered(received) ==
    LET r == Text(received, sizeObj, dataObj, theme)
    IN /\ textProps' = received
       /\ error' = r.error
       /\ trace' = r.trace
       /\ sizeCall' = r.sizeCall
       /\ sizeResult' = r.sizeResult
       /\ responsiveCall' = r.responsiveCall
       /\ styleArg' = r.styleArg
       /\ element' = r.element
       /\ pc' = "done"
       /\ UNCHANGED <<theme, props, sizeObj, dataObj>>

\* <Text ...props/> through the export: defaultProps, then Text
RenderForwardedRefText ==
    /\ pc = "props"
    /\ surface' = "public"
    /\ Rendered(ResolveDefaultProps(props))

\* Text(props, ref) with the props as the caller wrote them
RenderText ==
    /\ pc = "props"
    /\ surface' = "direct"
    /\ Rendered(props)

Next ==
    \/ \E k \in PropNames : \E v \in PropValues(k) : SetProp(k, v)
    \/ \E m \in ResponsiveSizes : SetResponsiveSize(m)
    \/ \E m \in DataAttributeObjects : SetDataAttributes(m)
    \/ RenderForwardedRefText
    \/ RenderText

Spec == Init /\ [][Next]_vars

-----------------------------------------------------------------------------
(* Properties *)

RenderedOk == pc = "done" /\ error = "none"

AssertionErrors == {"invariant: as", "invariant: size", "invariant: variant"}

\* The dataAttributes object of the caller ({} when the prop is not given)
CallerDataAttributes ==
    IF Get(props, "dataAttributes") = Undefined THEN EmptyMap ELSE dataObj

\* The open style props the caller wrote
CallerStyleKeys == DOMAIN props \cap StylePropNames

\* The class name cx(classNameForStyleProps, className) is expected to give
ExpectedClassName ==
    IF "className" \in DOMAIN props
    THEN useStyledSystem(styleArg) \o " " \o props["className"]
    ELSE useStyledSystem(styleArg)

\* C1: in the object passed to useStyledSystem a key that is both in the
\* style object of useTextSize and among the caller's style props has the
\* caller's value; a key in only one of the two keeps that one's value.
CallerStylePropsWin ==
    RenderedOk =>
        /\ DOMAIN styleArg = DOMAIN sizeResult.value \cup CallerStyleKeys
        /\ \A k \in DOMAIN styleArg :
              styleArg[k] = IF k \in CallerStyleKeys THEN Plain(props[k])
                            ELSE sizeResult.value[k]

CallerStylePropsWinWitness ==
    /\ RenderedOk
    /\ "fontSize" \in CallerStyleKeys
    /\ "fontSize" \in DOMAIN sizeResult.value
    /\ sizeResult.value["fontSize"] # Plain(props["fontSize"])
    /\ styleArg["fontSize"] = Plain(props["fontSize"])
    /\ styleArg["lineHeight"] = sizeResult.value["lineHeight"]

\* C2: for a variant of the enumeration and a plain string size of the
\* enumeration, useTextSize returns the theme entry [variant][size], does not
\* call getStylePropsForResponsiveProp and leaves the theme as it was.
PlainSizeIsThemeEntry ==
    (/\ pc = "done"
     /\ sizeCall.called
     /\ Get(textProps, "variant") \in TextVariants
     /\ Get(textProps, "size") \in TextSizes)
    => /\ error = "none"
       /\ sizeResult.defined
       /\ sizeResult.value =
              textSizesByVariant[textProps["variant"]][textProps["size"]]
       /\ ~responsiveCall.called
       /\ \A i \in 1..Len(trace) : trace[i] # "getStylePropsForResponsiveProp"
       /\ theme = textSizesByVariant

PlainSizeIsThemeEntryWitness ==
    /\ pc = "done"
    /\ Get(props, "variant") = "paragraph"
    /\ Get(props, "size") = "large"
    /\ sizeResult.defined
    /\ sizeResult.value = ThemeEntry("15px", "24px")

\* C3: for a variant of the enumeration and a responsive size mapping,
\* useTextSize calls getStylePropsForResponsiveProp with that mapping and the
\* row textSizesByVariant[variant], and the style of each viewport is the
\* entry of that row for the size given at the viewport.
ResponsiveSizeUsesVariantRow ==
    (/\ pc = "done"
     /\ sizeCall.called
     /\ Get(textProps, "variant") \in TextVariants
     /\ Get(textProps, "size") = ObjRef)
    => /\ error = "none"
       /\ responsiveCall = [called |-> TRUE, map |-> sizeObj, rowDefined |-> TRUE,
                             row |-> textSizesByVariant[textProps["variant"]]]
       /\ \A vp \in DOMAIN sizeObj :
            LET entry == textSizesByVariant[textProps["variant"]][sizeObj[vp]]
            IN \A k \in DOMAIN entry :
                 /\ k \in DOMAIN sizeResult.value
                 /\ sizeResult.value[k].responsive
                 /\ vp \in DOMAIN sizeResult.value[k].byViewport
                 /\ sizeResult.value[k].byViewport[vp] = entry[k].value

ResponsiveSizeUsesVariantRowWitness ==
    /\ RenderedOk
    /\ Get(props, "variant") = "paragraph"
    /\ Get(props, "size") = ObjRef
    /\ DOMAIN sizeObj = Viewports
    /\ sizeObj["smallViewport"] = "xsmall"
    /\ sizeObj["largeViewport"] = "large"
    /\ sizeResult.value["lineHeight"].byViewport["largeViewport"] = "24px"

\* C4: through the export, an omitted `as` renders a p element and an omitted
\* size or variant resolves the style with "default"; each default applies
\* whatever the other two props are, and a supplied value is kept.
DefaultsApplyIndependently ==
    (pc = "done" /\ surface = "public") =>
        LET given(k) == IF Get(props, k) = Undefined
                        THEN (IF k = "as" THEN "p" ELSE "default")
                        ELSE props[k]
        IN /\ sizeCall.called
           /\ sizeCall.size = given("size")
           /\ sizeCall.variant = given("variant")
           /\ error = "none" => element.type = given("as")

DefaultsApplyIndependentlyWitness ==
    /\ RenderedOk
    /\ surface = "public"
    /\ "as" \notin DOMAIN props
    /\ Get(props, "size") = "large"
    /\ Get(props, "variant") = "paragraph"
    /\ element.type = "p"
    /\ sizeCall.size = "large"
    /\ sizeCall.variant = "paragraph"

\* C5: dataAttributes is spread last: a built-in attribute whose name is a
\* key of dataAttributes has the dataAttributes value, and the other built-in
\* attributes have the value Text gave them.
DataAttributesSpreadLast ==
    RenderedOk =>
        /\ \A k \in DOMAIN CallerDataAttributes :
              Get(element.attrs, k) = CallerDataAttributes[k]
        /\ \A k \in BuiltinAttrs \ DOMAIN CallerDataAttributes :
              Get(element.attrs, k) = IF k = "className" THEN ExpectedClassName
                                      ELSE Get(props, k)

DataAttributesSpreadLastWitness ==
    /\ RenderedOk
    /\ "role" \in DOMAIN props
    /\ "role" \in DOMAIN CallerDataAttributes
    /\ props["role"] # CallerDataAttributes["role"]
    /\ element.attrs["role"] = CallerDataAttributes["role"]
    /\ element.attrs["className"] = ExpectedClassName

\* C6 as stated: a supplied aria prop is on the element under its own name
\* with its own value; an omitted one that dataAttributes does not supply is
\* absent; no aria value appears under another attribute's name.
AriaPropsForwardedVerbatim ==
    RenderedOk =>
        \A a \in AriaNames :
            /\ Get(props, a) # Undefined => Get(element.attrs, a) = props[a]
            /\ (Get(props, a) = Undefined /\ a \notin DOMAIN CallerDataAttributes)
                  => Get(element.attrs, a) = Undefined
            /\ Get(props, a) # Undefined =>
                  \A b \in DOMAIN element.attrs \ {a} : element.attrs[b] # props[a]

\* C6, amended: a supplied aria prop whose name is not a key of dataAttributes
\* is on the element under its own name with its own value (a key of
\* dataAttributes of that name replaces it); an omitted one that
\* dataAttributes does not supply is absent; no aria value appears under
\* another attribute's name.
AriaPropsForwardedUnlessOverridden ==
    RenderedOk =>
        \A a \in AriaNames :
            /\ (Get(props, a) # Undefined /\ a \notin DOMAIN CallerDataAttributes)
                  => Get(element.attrs, a) = props[a]
            /\ a \in DOMAIN CallerDataAttributes
                  => Get(element.attrs, a) = CallerDataAttributes[a]
            /\ (Get(props, a) = Undefined /\ a \notin DOMAIN CallerDataAttributes)
                  => Get(element.attrs, a) = Undefined
            /\ Get(props, a) # Undefined =>
                  \A b \in DOMAIN element.attrs \ {a} : element.attrs[b] # props[a]

AriaPropsForwardedWitness ==
    /\ RenderedOk
    /\ "aria-label" \in DOMAIN props
    /\ "aria-labelledby" \in DOMAIN props
    /\ element.attrs["aria-label"] = props["aria-label"]
    /\ element.attrs["aria-labelledby"] = props["aria-labelledby"]
    /\ element.attrs["aria-live"] = Undefined

\* C7 as stated: the element's class name is the class name of
\* useStyledSystem joined with the caller's className, the style prop is on
\* the element unmodified, and style is not passed to useStyledSystem.
ClassNameIsCombined ==
    RenderedOk =>
        /\ Get(element.attrs, "className") = ExpectedClassName
        /\ Get(element.attrs, "style") = Get(props, "style")
        /\ "style" \notin DOMAIN styleArg

\* C7, amended: unless dataAttributes has a key className, the element's
\* class name is the class name of useStyledSystem joined with the caller's
\* className; unless dataAttributes has a key style, the style prop is on the
\* element unmodified; style and className are never passed to useStyledSystem.
ClassNameIsCombinedUnlessOverridden ==
    RenderedOk =>
        /\ "className" \notin DOMAIN CallerDataAttributes
              => Get(element.attrs, "className") = ExpectedClassName
        /\ "style" \notin DOMAIN CallerDataAttributes
              => Get(element.attrs, "style") = Get(props, "style")
        /\ "style" \notin DOMAIN styleArg
        /\ "className" \notin DOMAIN styleArg

ClassNameIsCombinedWitness ==
    /\ RenderedOk
    /\ Get(props, "className") = "intro"
    /\ Get(props, "style") = "{color: red}"
    /\ element.attrs["className"] = "css-styled intro"
    /\ element.attrs["style"] = "{color: red}"

\* C8 as stated: a render whose as, size and variant are all defined never
\* throws, whatever their values.
OnlyAssertionsFail ==
    (/\ pc = "done"
     /\ Get(textProps, "as") # Undefined
     /\ Get(textProps, "size") # Undefined
     /\ Get(textProps, "variant") # Undefined)
    => error = "none"

\* C8, amended: besides the three assertions a render fails with a TypeError
\* in useTextSize when the theme has no row for the variant and size is a
\* string; with a variant of the enumeration, a string size outside the
\* enumeration raises nothing and gives an undefined lookup result.
UnknownSizeSilentUnknownVariantThrows ==
    pc = "done" =>
        /\ error \in AssertionErrors \cup {"none", "TypeError"}
        /\ error = "TypeError"
              => sizeCall.called /\ sizeCall.variant \notin DOMAIN theme
        /\ (/\ sizeCall.called
            /\ TypeOf(sizeCall.size) = "string"
            /\ sizeCall.variant \notin DOMAIN theme)
              => error = "TypeError"
        /\ (/\ sizeCall.called
            /\ TypeOf(sizeCall.size) = "string"
            /\ sizeCall.variant \in TextVariants)
              => /\ error = "none"
                 /\ sizeCall.size \notin TextSizes
                       => /\ sizeResult = NoResult
                          /\ DOMAIN styleArg = CallerStyleKeys

UnknownSizeSilentWitness ==
    /\ RenderedOk
    /\ Get(props, "size") = "huge"
    /\ sizeCall.variant \in TextVariants
    /\ sizeResult = NoResult
    /\ element.type # Undefined

\* C9: the assertions are made in the order as, size, variant before
\* useTextSize, useStyledSystem or the element; each fails exactly when its
\* prop is undefined; through the export none of them fails.
AssertionsInOrder ==
    pc = "done" =>
        LET expected ==
                IF Get(textProps, "as") = Undefined THEN "invariant: as"
                ELSE IF Get(textProps, "size") = Undefined THEN "invariant: size"
                ELSE IF Get(textProps, "variant") = Undefined THEN "invariant: variant"
                ELSE "none"
            order == <<"invariant(as)", "invariant(size)", "invariant(variant)">>
        IN /\ expected # "none" =>
                /\ error = expected
                /\ \E n \in 1..3 : trace = SubSeq(order, 1, n)
                /\ ~sizeCall.called
                /\ styleArg = EmptyMap
                /\ element = NoElement
           /\ expected = "none" =>
                /\ error \notin AssertionErrors
                /\ Len(trace) > 3
                /\ SubSeq(trace, 1, 3) = order
           /\ surface = "public" => error \notin AssertionErrors

AssertionsInOrderWitness ==
    /\ pc = "done"
    /\ surface = "direct"
    /\ Get(textProps, "as") = Undefined
    /\ Get(textProps, "size") = Undefined
    /\ DOMAIN props # {}
    /\ error = "invariant: as"
    /\ trace = <<"invariant(as)">>

\* C10: no named prop is a key of the object passed to useStyledSystem; every
\* other prop of the caller is a key of it, with the caller's value, and is
\* not forwarded to the element; a key of dataAttributes is on the element
\* and reaches useStyledSystem only as a style prop or a theme key.
PropsPartitionedByName ==
    RenderedOk =>
        /\ DOMAIN styleArg \cap NamedProps = {}
        /\ \A k \in DOMAIN props \ NamedProps :
              /\ k \in DOMAIN styleArg
              /\ styleArg[k] = Plain(props[k])
              /\ k \notin DOMAIN CallerDataAttributes => k \notin DOMAIN element.attrs
        /\ DOMAIN element.attrs = BuiltinAttrs \cup DOMAIN CallerDataAttributes
        /\ \A k \in DOMAIN CallerDataAttributes :
              k \in DOMAIN styleArg =>
                  k \in CallerStyleKeys \cup DOMAIN sizeResult.value

PropsPartitionedByNameWitness ==
    /\ RenderedOk
    /\ "margin" \in DOMAIN props
    /\ "data-test" \in DOMAIN CallerDataAttributes
    /\ "margin" \in DOMAIN styleArg
    /\ "margin" \notin DOMAIN element.attrs
    /\ "data-test" \in DOMAIN element.attrs
    /\ "data-test" \notin DOMAIN styleArg

====
